---- MODULE Spec2Model ----
(***************************************************************************)
(* Model of the Minesweeper knowledge-base player (src/minesweeper.py):    *)
(* class Sentence, class MinesweeperAI and the part of class Minesweeper   *)
(* that produces the neighbour counts fed to MinesweeperAI.add_knowledge.  *)
(*                                                                         *)
(* add_knowledge is modelled statement by statement: one step per          *)
(* engine-level mark, per appended sentence and per pair examined by the   *)
(* subset loop, chained by pc, so that the states inside one call are      *)
(* visible.  pc = "idle" is the state seen by the caller.                  *)
(***************************************************************************)
EXTENDS Integers, Sequences, FiniteSets, TLC

\* Board dimensions and the sizes of the explored games.
Height == 2
Width == 3
MaxMines == 1
MaxMoves == 2

None == <<"None">>

Cells == (0 .. Height - 1) \X (0 .. Width - 1)

VARIABLES
    board,       \* Minesweeper.mines: the cells that hold a mine
    moves_made,  \* MinesweeperAI.moves_made
    mines,       \* MinesweeperAI.mines
    safes,       \* MinesweeperAI.safes
    knowledge,   \* MinesweeperAI.knowledge: sequence of [cells, count]
    pc,          \* position inside add_knowledge, "idle" outside any call
    cur,         \* arguments (cell, count) of the running add_knowledge
    idx,         \* position of `for sentence in self.knowledge` (1-based)
    mine,        \* cells of mine.copy() still to be marked
    safe,        \* cells of safe.copy() still to be marked
    i1,          \* position of `for set1 in self.knowledge` (1-based)
    i2,          \* position of `for set2 in self.knowledge` (1-based)
    ret          \* last call made by the driver and the value it returned

vars == <<board, moves_made, mines, safes, knowledge, pc, cur, idx, mine,
          safe, i1, i2, ret>>

----------------------------------------------------------------------------
\* class Minesweeper

InBounds(c) == 0 <= c[1] /\ c[1] < Height /\ 0 <= c[2] /\ c[2] < Width

\* The 3x3 block around cell, without cell itself, before any bounds test.
Around(cell) ==
    { <<i, j>> : i \in (cell[1] - 1) .. (cell[1] + 1),
                 j \in (cell[2] - 1) .. (cell[2] + 1) } \ {cell}

nearby_mines(cell) ==
    Cardinality({ c \in Around(cell) : InBounds(c) /\ c \in board })

----------------------------------------------------------------------------
\* class Sentence

Sentence(cells, count) == [cells |-> cells, count |-> count]

\* Sentence.known_mines without the test `len(self.cells) == self.count`.
known_mines_any_count(s) ==
    IF s.count # 0 THEN s.cells ELSE {}

\* Sentence.known_mines with `>=` in place of `==`.
known_mines_ge(s) ==
    IF Cardinality(s.cells) >= s.count /\ s.count # 0 THEN s.cells ELSE {}

known_mines(s) ==
    IF Cardinality(s.cells) = s.count /\ s.count # 0 THEN s.cells ELSE {}

known_safes(s) ==
    IF s.count = 0 THEN s.cells ELSE {}

\* Sentence.mark_mine without `self.count -= 1`.
Sentence_mark_mine_keeps_count(s, cell) ==
    IF cell \in s.cells
    THEN [cells |-> s.cells \ {cell}, count |-> s.count]
    ELSE s

Sentence_mark_mine(s, cell) ==
    IF cell \in s.cells
    THEN [cells |-> s.cells \ {cell}, count |-> s.count - 1]
    ELSE s

\* Sentence.mark_safe that also decrements the count.
Sentence_mark_safe_decrements(s, cell) ==
    IF cell \in s.cells
    THEN [cells |-> s.cells \ {cell}, count |-> s.count - 1]
    ELSE s

Sentence_mark_safe(s, cell) ==
    IF cell \in s.cells
    THEN [cells |-> s.cells \ {cell}, count |-> s.count]
    ELSE s

----------------------------------------------------------------------------
\* class MinesweeperAI

\* MinesweeperAI.mark_mine that calls Sentence.mark_safe on the sentences.
mark_mine_as_safe(kb, cell) ==
    [k \in 1 .. Len(kb) |-> Sentence_mark_safe(kb[k], cell)]

\* The loop of MinesweeperAI.mark_mine over self.knowledge.
mark_mine(kb, cell) ==
    [k \in 1 .. Len(kb) |-> Sentence_mark_mine(kb[k], cell)]

\* MinesweeperAI.mark_safe that also discards the sentences it empties.
mark_safe_drops_empty(kb, cell) ==
    SelectSeq([k \in 1 .. Len(kb) |-> Sentence_mark_safe(kb[k], cell)],
              LAMBDA t : t.cells # {})

\* The loop of MinesweeperAI.mark_safe over self.knowledge.
mark_safe(kb, cell) ==
    [k \in 1 .. Len(kb) |-> Sentence_mark_safe(kb[k], cell)]

\* The new sentence with the bounds test `0 < i` in place of `0 <= i`.
new_sentence_drops_row0(cell, count) ==
    Sentence({ c \in Around(cell) :
                 InBounds(c) /\ 0 < c[1] /\ c \notin mines /\ c \notin safes },
             count - Cardinality({ c \in Around(cell) : c \in mines }))

\* The new sentence without the test `(i,j) not in self.safes`.
new_sentence_keeps_safes(cell, count) ==
    Sentence({ c \in Around(cell) : InBounds(c) /\ c \notin mines },
             count - Cardinality({ c \in Around(cell) : c \in mines }))

\* The new sentence with the bounds test `i <= self.height`.
new_sentence_off_board(cell, count) ==
    Sentence({ c \in Around(cell) :
                 /\ 0 <= c[1] /\ c[1] <= Height /\ 0 <= c[2] /\ c[2] < Width
                 /\ c \notin mines /\ c \notin safes },
             count - Cardinality({ c \in Around(cell) : c \in mines }))

\* The sentence built by add_knowledge from (cell, count).
new_sentence(cell, count) ==
    Sentence({ c \in Around(cell) :
                 InBounds(c) /\ c \notin mines /\ c \notin safes },
             count - Cardinality({ c \in Around(cell) : c \in mines }))

Init ==
    /\ board \in { b \in SUBSET Cells : Cardinality(b) <= MaxMines }
    /\ moves_made = {}
    /\ mines = {}
    /\ safes = {}
    /\ knowledge = <<>>
    /\ pc = "idle"
    /\ cur = [cell |-> None, count |-> 0]
    /\ idx = 0
    /\ mine = {}
    /\ safe = {}
    /\ i1 = 0
    /\ i2 = 0
    /\ ret = [op |-> "init", val |-> None]

\* add_knowledge without `self.mark_safe(cell)`.
AddKnowledge_no_mark_safe(cell, count) ==
    /\ pc = "idle"
    /\ moves_made' = moves_made \cup {cell}
    /\ cur' = [cell |-> cell, count |-> count]
    /\ pc' = "new"
    /\ ret' = [op |-> "add_knowledge", val |-> None]
    /\ UNCHANGED <<board, mines, safes, knowledge, idx, mine, safe, i1, i2>>

\* add_knowledge, steps 1 and 2: record the move and mark the cell safe.
AddKnowledge(cell, count) ==
    /\ pc = "idle"
    /\ moves_made' = moves_made \cup {cell}
    /\ safes' = safes \cup {cell}
    /\ knowledge' = mark_safe(knowledge, cell)
    /\ cur' = [cell |-> cell, count |-> count]
    /\ pc' = "new"
    /\ ret' = [op |-> "add_knowledge", val |-> None]
    /\ UNCHANGED <<board, mines, idx, mine, safe, i1, i2>>

\* add_knowledge, step 3: build the new sentence and append it.
AppendNew ==
    /\ pc = "new"
    /\ knowledge' = Append(knowledge, new_sentence(cur.cell, cur.count))
    /\ pc' = "direct"
    /\ idx' = 1
    /\ UNCHANGED <<board, moves_made, mines, safes, cur, mine, safe, i1, i2,
                   ret>>

\* add_knowledge, step 4: head of one iteration of
\* `for sentence in self.knowledge`, or its exit into step 5.
DirectNext ==
    /\ pc = "direct"
    /\ IF idx <= Len(knowledge)
       THEN /\ mine' = known_mines(knowledge[idx])
            /\ safe' = known_safes(knowledge[idx])
            /\ pc' = "mark"
            /\ UNCHANGED <<idx, i1, i2>>
       ELSE /\ pc' = "subset"
            /\ i1' = 1
            /\ i2' = 1
            /\ UNCHANGED <<idx, mine, safe>>
    /\ UNCHANGED <<board, moves_made, mines, safes, knowledge, cur, ret>>

\* One self.mark_mine(cells) of `for cells in mine.copy()`.
MarkMine ==
    /\ pc = "mark"
    /\ mine # {}
    /\ \E c \in mine :
         /\ mines' = mines \cup {c}
         /\ knowledge' = mark_mine(knowledge, c)
         /\ mine' = mine \ {c}
    /\ UNCHANGED <<board, moves_made, safes, pc, cur, idx, safe, i1, i2, ret>>

\* One self.mark_safe(cells) of `for cells in safe.copy()`.
MarkSafe ==
    /\ pc = "mark"
    /\ mine = {}
    /\ safe # {}
    /\ \E c \in safe :
         /\ safes' = safes \cup {c}
         /\ knowledge' = mark_safe(knowledge, c)
         /\ safe' = safe \ {c}
    /\ UNCHANGED <<board, moves_made, mines, pc, cur, idx, mine, i1, i2, ret>>

\* The end of an iteration that does not advance to the next sentence.
MarkDone_stays ==
    /\ pc = "mark"
    /\ mine = {}
    /\ safe = {}
    /\ pc' = "direct"
    /\ UNCHANGED <<board, moves_made, mines, safes, knowledge, cur, idx,
                   mine, safe, i1, i2, ret>>

\* End of one iteration of the direct loop.
MarkDone ==
    /\ pc = "mark"
    /\ mine = {}
    /\ safe = {}
    /\ pc' = "direct"
    /\ idx' = idx + 1
    /\ UNCHANGED <<board, moves_made, mines, safes, knowledge, cur, mine,
                   safe, i1, i2, ret>>

\* Exhaustion of the inner loop `for set2 in self.knowledge`.
SubsetNextSet1 ==
    /\ pc = "subset"
    /\ i1 <= Len(knowledge)
    /\ i2 > Len(knowledge)
    /\ i1' = i1 + 1
    /\ i2' = 1
    /\ UNCHANGED <<board, moves_made, mines, safes, knowledge, pc, cur, idx,
                   mine, safe, ret>>

\* The three `continue` tests of the subset loop.
Skipped(set1, set2) ==
    \/ set1.count = 0 \/ set2.count = 0
    \/ set1.cells = set2.cells
    \/ Cardinality(set1.cells) = 0 \/ Cardinality(set2.cells) = 0

\* A pair (set1, set2) that one of the three `continue` tests skips.
SubsetContinue ==
    /\ pc = "subset"
    /\ i1 <= Len(knowledge)
    /\ i2 <= Len(knowledge)
    /\ Skipped(knowledge[i1], knowledge[i2])
    /\ i2' = i2 + 1
    /\ UNCHANGED <<board, moves_made, mines, safes, knowledge, pc, cur, idx,
                   mine, safe, i1, ret>>

\* The derived sentence with `set2.count + set1.count` as its count.
SubsetAppend_adds_counts ==
    /\ pc = "subset"
    /\ i1 <= Len(knowledge)
    /\ i2 <= Len(knowledge)
    /\ ~Skipped(knowledge[i1], knowledge[i2])
    /\ knowledge[i1].cells \subseteq knowledge[i2].cells
    /\ knowledge' = Append(knowledge,
                       Sentence(knowledge[i2].cells \ knowledge[i1].cells,
                                knowledge[i2].count + knowledge[i1].count))
    /\ i2' = i2 + 1
    /\ UNCHANGED <<board, moves_made, mines, safes, pc, cur, idx, mine, safe,
                   i1, ret>>

\* A pair with set1.cells a subset of set2.cells: append the difference.
SubsetAppend ==
    /\ pc = "subset"
    /\ i1 <= Len(knowledge)
    /\ i2 <= Len(knowledge)
    /\ ~Skipped(knowledge[i1], knowledge[i2])
    /\ knowledge[i1].cells \subseteq knowledge[i2].cells
    /\ knowledge' = Append(knowledge,
                       Sentence(knowledge[i2].cells \ knowledge[i1].cells,
                                knowledge[i2].count - knowledge[i1].count))
    /\ i2' = i2 + 1
    /\ UNCHANGED <<board, moves_made, mines, safes, pc, cur, idx, mine, safe,
                   i1, ret>>

\* A pair that is not skipped and is not a subset pair: `return None`.
SubsetReturn ==
    /\ pc = "subset"
    /\ i1 <= Len(knowledge)
    /\ i2 <= Len(knowledge)
    /\ ~Skipped(knowledge[i1], knowledge[i2])
    /\ ~(knowledge[i1].cells \subseteq knowledge[i2].cells)
    /\ pc' = "idle"
    /\ UNCHANGED <<board, moves_made, mines, safes, knowledge, cur, idx,
                   mine, safe, i1, i2, ret>>

\* Exhaustion of the outer loop `for set1 in self.knowledge`.
SubsetDone ==
    /\ pc = "subset"
    /\ i1 > Len(knowledge)
    /\ pc' = "idle"
    /\ UNCHANGED <<board, moves_made, mines, safes, knowledge, cur, idx,
                   mine, safe, i1, i2, ret>>

\* make_safe_move without the test `cell not in self.moves_made`.
make_safe_move_any_safe ==
    IF safes = {} THEN {None} ELSE safes

\* make_safe_move: the first cell of self.safes, in the iteration order of
\* the set, that is not in self.moves_made.
make_safe_move ==
    IF safes \ moves_made = {} THEN {None} ELSE safes \ moves_made

MakeSafeMove ==
    /\ pc = "idle"
    /\ \E r \in make_safe_move : ret' = [op |-> "make_safe_move", val |-> r]
    /\ UNCHANGED <<board, moves_made, mines, safes, knowledge, pc, cur, idx,
                   mine, safe, i1, i2>>

\* make_random_move without the test `(i,j) not in self.mines`.
make_random_move_ignores_mines ==
    LET possibles_moves ==
            { c \in (0 .. Height - 1) \X (0 .. Width - 1) :
                c \notin moves_made }
    IN  IF possibles_moves = {} THEN {None} ELSE possibles_moves

\* make_random_move: random.choice over the cells collected by the two
\* loops over range(self.height) and range(self.width), or None.
make_random_move ==
    LET possibles_moves ==
            { c \in (0 .. Height - 1) \X (0 .. Width - 1) :
                c \notin moves_made /\ c \notin mines }
    IN  IF possibles_moves = {} THEN {None} ELSE possibles_moves

MakeRandomMove ==
    /\ pc = "idle"
    /\ \E r \in make_random_move : ret' = [op |-> "make_random_move", val |-> r]
    /\ UNCHANGED <<board, moves_made, mines, safes, knowledge, pc, cur, idx,
                   mine, safe, i1, i2>>

\* The driver reveals a cell that holds no mine and was not revealed before,
\* and reports the true number of neighbouring mines.
Reveal ==
    /\ Cardinality(moves_made) < MaxMoves
    /\ \E cell \in Cells \ (board \cup moves_made) :
         AddKnowledge(cell, nearby_mines(cell))

Next ==
    \/ Reveal
    \/ AppendNew
    \/ DirectNext
    \/ MarkMine
    \/ MarkSafe
    \/ MarkDone
    \/ SubsetNextSet1
    \/ SubsetContinue
    \/ SubsetAppend
    \/ SubsetReturn
    \/ SubsetDone
    \/ MakeSafeMove
    \/ MakeRandomMove

Spec == Init /\ [][Next]_vars

\* The steps of a running add_knowledge call.
Step ==
    \/ AppendNew
    \/ DirectNext
    \/ MarkMine
    \/ MarkSafe
    \/ MarkDone
    \/ SubsetNextSet1
    \/ SubsetContinue
    \/ SubsetAppend
    \/ SubsetReturn
    \/ SubsetDone

\* A driver that reveals a fresh cell without a mine but may report any
\* count from 0 to 8, true or not.
RevealAny ==
    /\ Cardinality(moves_made) < MaxMoves
    /\ \E cell \in Cells \ (board \cup moves_made) :
         \E count \in 0 .. 8 : AddKnowledge(cell, count)

NextAny ==
    \/ RevealAny
    \/ Step

\* add_knowledge under counts that need not be true.
SpecAny == Init /\ [][NextAny]_vars

\* One sentence with any cells of the board and any count, also one that is
\* not true of any board, about to be examined by the direct pass.
SentenceInit ==
    /\ board = {}
    /\ moves_made = {}
    /\ mines = {}
    /\ safes = {}
    /\ knowledge \in { <<Sentence(cells, count)>> :
                          cells \in SUBSET Cells,
                          count \in -1 .. (Height * Width + 1) }
    /\ pc = "direct"
    /\ cur = [cell |-> None, count |-> 0]
    /\ idx = 1
    /\ mine = {}
    /\ safe = {}
    /\ i1 = 0
    /\ i2 = 0
    /\ ret = [op |-> "init", val |-> None]

\* Sentence.known_mines and Sentence.known_safes applied to that sentence.
SentenceSpec == SentenceInit /\ [][DirectNext]_vars

\* The add_knowledge calls alone, without the queries of the driver.
Calls ==
    \/ Reveal
    \/ Step

\* add_knowledge is synchronous: once called, its statements keep executing.
FairSpec == Init /\ [][Calls]_vars /\ WF_vars(Step)

----------------------------------------------------------------------------
\* Steps 4 and 5 of add_knowledge as functions of the knowledge base, used to
\* state what running the two passes once more would do.

Range(f) == { f[k] : k \in DOMAIN f }

RECURSIVE mark_mines(_, _)
\* `for cells in mine.copy(): self.mark_mine(cells)` on st = [kb, mines, safes].
mark_mines(st, todo) ==
    IF todo = {} THEN st
    ELSE LET c == CHOOSE x \in todo : TRUE
         IN  mark_mines([kb |-> mark_mine(st.kb, c),
                         mines |-> st.mines \cup {c},
                         safes |-> st.safes], todo \ {c})

RECURSIVE mark_safes(_, _)
\* `for cells in safe.copy(): self.mark_safe(cells)` on st = [kb, mines, safes].
mark_safes(st, todo) ==
    IF todo = {} THEN st
    ELSE LET c == CHOOSE x \in todo : TRUE
         IN  mark_safes([kb |-> mark_safe(st.kb, c),
                         mines |-> st.mines,
                         safes |-> st.safes \cup {c}], todo \ {c})

RECURSIVE direct_pass(_, _)
\* The loop `for sentence in self.knowledge` of step 4, from position k.
direct_pass(st, k) ==
    IF k > Len(st.kb) THEN st
    ELSE direct_pass(mark_safes(mark_mines(st, known_mines(st.kb[k])),
                                known_safes(st.kb[k])), k + 1)

RECURSIVE subset_pass(_, _, _)
\* The nested loops of step 5, from the pair of positions (a, b).
subset_pass(kb, a, b) ==
    IF a > Len(kb) THEN kb
    ELSE IF b > Len(kb) THEN subset_pass(kb, a + 1, 1)
    ELSE IF Skipped(kb[a], kb[b]) THEN subset_pass(kb, a, b + 1)
    ELSE IF kb[a].cells \subseteq kb[b].cells
         THEN subset_pass(Append(kb, Sentence(kb[b].cells \ kb[a].cells,
                                              kb[b].count - kb[a].count)),
                          a, b + 1)
    ELSE kb

\* The state after running step 4 and then step 5 once more.
Rerun ==
    LET d == direct_pass([kb |-> knowledge, mines |-> mines,
                          safes |-> safes], 1)
    IN  [d EXCEPT !.kb = subset_pass(d.kb, 1, 1)]

\* An add_knowledge call has returned (the driver may have queried since).
Returned == pc = "idle" /\ moves_made # {}

\* The direct pass would mark the cells of s.
Resolvable(s) == known_mines(s) # {} \/ known_safes(s) # {}

\* (cells, count) is held, or is resolved and its cells are marked accordingly.
Present(cells, count) ==
    \/ \E k \in DOMAIN knowledge : knowledge[k] = Sentence(cells, count)
    \/ count = 0 /\ cells \subseteq safes
    \/ count = Cardinality(cells) /\ cells \subseteq mines

\* Ordered pairs of distinct held sentences that the subset rule applies to.
SubsetPairs ==
    { p \in (DOMAIN knowledge) \X (DOMAIN knowledge) :
        /\ p[1] # p[2]
        /\ knowledge[p[1]].cells # {} /\ knowledge[p[2]].cells # {}
        /\ knowledge[p[1]].count # 0 /\ knowledge[p[2]].count # 0
        /\ knowledge[p[1]].cells \subseteq knowledge[p[2]].cells }

----------------------------------------------------------------------------
\* C1 (soundness): after every add_knowledge call with a true count for a
\* fresh cell without a mine, every cell of self.mines holds a mine of the
\* board and no cell of self.safes does.
C1_Soundness ==
    pc = "idle" => mines \subseteq board /\ safes \cap board = {}

\* A call has returned with a deduced mine and a deduced, unprobed safe cell.
C1_Witness ==
    Returned /\ mines # {} /\ safes \ moves_made # {}

\* C2 (fixed point): when add_knowledge has returned, running the direct
\* pass and the subset pass once more changes neither self.mines, nor
\* self.safes, nor the set of (cells, count) sentences held, and no held
\* sentence has a non-empty known_mines() or known_safes().
C2_FixedPoint ==
    Returned =>
        /\ Rerun.mines = mines
        /\ Rerun.safes = safes
        /\ Range(Rerun.kb) = Range(knowledge)
        /\ \A k \in DOMAIN knowledge : ~Resolvable(knowledge[k])

\* C3 (subset law): when add_knowledge has returned, for every ordered pair
\* of distinct held sentences (A, B), both non-empty with non-zero counts and
\* A.cells a subset of B.cells, the sentence (B.cells - A.cells,
\* B.count - A.count) is held or its resolved consequences are marked.
C3_SubsetLaw ==
    Returned =>
        \A p \in SubsetPairs :
            Present(knowledge[p[2]].cells \ knowledge[p[1]].cells,
                    knowledge[p[2]].count - knowledge[p[1]].count)

\* C4 (subset consequences resolved in the same call): when add_knowledge
\* has returned, for held sentences A, B with A.cells a proper subset of
\* B.cells and A.count = B.count >= 1, every cell of B.cells - A.cells is in
\* self.safes.  (Step 5 only appends, so the pairs held at the subset pass
\* are the pairs held at the return.)
C4_SubsetSafeResolved ==
    Returned =>
        \A a, b \in DOMAIN knowledge :
            ( /\ knowledge[a].cells \subseteq knowledge[b].cells
              /\ knowledge[a].cells # knowledge[b].cells
              /\ knowledge[a].count = knowledge[b].count
              /\ knowledge[a].count >= 1 )
            => (knowledge[b].cells \ knowledge[a].cells) \subseteq safes

\* C5 (single-cell sentences are resolved): when add_knowledge has returned,
\* the cell of every held one-cell sentence is in self.mines if the count is
\* 1 and in self.safes if the count is 0, and in exactly one of the two.
\* (A one-cell sentence seen inside the call either is still held at the
\* return or lost its cell to a mark.)
C5_SingleCellResolved ==
    Returned =>
        \A k \in DOMAIN knowledge :
            Cardinality(knowledge[k].cells) = 1 =>
                \A c \in knowledge[k].cells :
                    /\ knowledge[k].count = 1 => c \in mines
                    /\ knowledge[k].count = 0 => c \in safes
                    /\ (c \in mines) # (c \in safes)

\* C6 (zero-count observation): when add_knowledge(cell, 0) has returned,
\* every in-bounds neighbour of cell is in self.safes.
C6_ZeroCount ==
    (Returned /\ cur.count = 0) =>
        \A c \in Around(cur.cell) : InBounds(c) => c \in safes

\* A zero-count call has returned on a board with mines and prior knowledge,
\* and it marked a neighbour that is not itself a probed cell.
C6_Witness ==
    /\ Returned /\ cur.count = 0
    /\ board # {} /\ Len(knowledge) >= 2
    /\ Around(cur.cell) \cap (safes \ moves_made) # {}

\* C7 (count/cardinality): in every state, inside a call or between calls,
\* every held sentence has 0 <= count <= |cells|.
C7_CountInRange ==
    \A k \in DOMAIN knowledge :
        0 <= knowledge[k].count
        /\ knowledge[k].count <= Cardinality(knowledge[k].cells)

\* Inside a call, the subset pass has appended a derived sentence and a
\* sentence with a positive count is held.
C7_Witness ==
    /\ pc = "subset"
    /\ Len(knowledge) > Cardinality(moves_made)
    /\ \E k \in DOMAIN knowledge : knowledge[k].count >= 1

\* C8 (disjointness): in every state self.mines and self.safes are disjoint.
C8_Disjoint ==
    mines \cap safes = {}

\* Both sets hold deduced cells.
C8_Witness ==
    mines # {} /\ safes \ moves_made # {} /\ pc = "idle"
    /\ Cardinality(moves_made) >= 2

\* C9 (resolved cells leave all sentences): in every state no cell of
\* self.mines or self.safes is a member of any held sentence.
C9_ResolvedCellsRemoved ==
    \A k \in DOMAIN knowledge :
        knowledge[k].cells \cap (mines \cup safes) = {}

\* A sentence appended by the subset pass is held, cells are known safe and
\* some sentence still has unknown cells.
C9_Witness ==
    /\ Len(knowledge) > Cardinality(moves_made)
    /\ safes # {}
    /\ \E k \in DOMAIN knowledge : knowledge[k].cells # {}

\* C10 (make_safe_move is a pure query): the value returned is a cell of
\* self.safes that is not in self.moves_made, it is None exactly when
\* self.safes is a subset of self.moves_made, and the call leaves
\* moves_made, mines, safes and knowledge unchanged.
C10_SafeMovePure ==
    /\ [](ret.op = "make_safe_move" =>
            /\ (ret.val = None) <=> (safes \subseteq moves_made)
            /\ ret.val # None => ret.val \in safes \ moves_made)
    /\ [][ret'.op = "make_safe_move" =>
            UNCHANGED <<moves_made, mines, safes, knowledge>>]_vars

\* make_safe_move returned a cell although other safe cells were already
\* probed.
C10_Witness ==
    /\ ret.op = "make_safe_move" /\ ret.val # None
    /\ safes \cap moves_made # {}

\* C11 (make_random_move): the value returned is an in-bounds cell that is
\* neither in self.moves_made nor in self.mines, it is None only if every
\* cell of the board is in one of the two, and between calls every cell that
\* is in neither set is among the values random.choice can return.
C11_RandomMove ==
    /\ ret.op = "make_random_move" =>
         /\ ret.val # None =>
               /\ ret.val \in Cells
               /\ ret.val \notin moves_made
               /\ ret.val \notin mines
         /\ ret.val = None => Cells \subseteq (moves_made \cup mines)
    /\ pc = "idle" =>
         \A c \in Cells \ (moves_made \cup mines) : c \in make_random_move

\* make_random_move returned a cell while a mine was known and cells were
\* already probed.
C11_Witness ==
    /\ ret.op = "make_random_move" /\ ret.val # None
    /\ mines # {} /\ moves_made # {}

\* C12 (termination): every add_knowledge call returns, although the subset
\* pass appends to the list it iterates over.
C12_Termination ==
    (pc # "idle") ~> (pc = "idle")

\* A call has returned after its subset pass appended derived sentences.
C12_Witness ==
    /\ pc = "idle"
    /\ Len(knowledge) > Cardinality(moves_made)

\* C13 (monotonic knowledge): no step of add_knowledge, make_safe_move or
\* make_random_move removes a cell from self.mines, self.safes or
\* self.moves_made, and none removes a sentence from self.knowledge.
C13_Monotonic ==
    [][/\ mines \subseteq mines'
       /\ safes \subseteq safes'
       /\ moves_made \subseteq moves_made'
       /\ Len(knowledge) <= Len(knowledge')]_vars

\* All three sets and the list have grown, the list beyond one sentence per
\* call, and the driver has queried a move.
C13_Witness ==
    /\ mines # {} /\ safes \ moves_made # {}
    /\ Cardinality(moves_made) >= 2
    /\ ret.op = "make_random_move"

\* C14 (engine-level mark_mine): a mark_mine(cell) step adds cell to
\* self.mines, removes cell from every sentence that contains it and
\* decrements that sentence's count by exactly 1, and leaves every other
\* sentence, self.safes and self.moves_made unchanged.
C14_MarkMineEffect ==
    [][mines' # mines =>
         \E c \in Cells \ mines :
            /\ mines' = mines \cup {c}
            /\ Len(knowledge') = Len(knowledge)
            /\ \A k \in DOMAIN knowledge :
                 IF c \in knowledge[k].cells
                 THEN /\ knowledge'[k].cells = knowledge[k].cells \ {c}
                      /\ knowledge'[k].count = knowledge[k].count - 1
                 ELSE knowledge'[k] = knowledge[k]
            /\ safes' = safes
            /\ moves_made' = moves_made]_vars

\* mark_mine has just run on a list of two sentences and emptied one of them.
C14_Witness ==
    /\ pc = "mark" /\ mines # {} /\ mine = {}
    /\ Len(knowledge) >= 2
    /\ knowledge[idx] = Sentence({}, 0)

\* C15 (logical impossibility is reported): add_knowledge does not return
\* normally while holding a sentence, built from the observation or derived
\* by the subset pass, whose count is negative or exceeds the number of its
\* cells.  (add_knowledge has no raise and no assert: every return is a
\* normal return.)
C15_ImpossibleReported ==
    Returned =>
        \A k \in DOMAIN knowledge :
            /\ 0 <= knowledge[k].count
            /\ knowledge[k].count <= Cardinality(knowledge[k].cells)

\* The cells of the board that touch cell: at most one row and one column
\* away, cell itself excluded.
Neighbours(cell) ==
    { c \in Cells : /\ c # cell
                    /\ c[1] - cell[1] \in -1 .. 1
                    /\ c[2] - cell[2] \in -1 .. 1 }

C17_SentencesTrue ==
    \A k \in DOMAIN knowledge :
        knowledge[k].count = Cardinality(knowledge[k].cells \cap board)

\* An observation sentence shrunk by marks and a sentence derived by the
\* subset pass are held on a board with a mine.
C17_Witness ==
    /\ board # {}
    /\ Len(knowledge) > Cardinality(moves_made)
    /\ \E k \in DOMAIN knowledge : knowledge[k].count >= 1
    /\ safes # {}

\* C18 (probed cells are known safe): in every state self.moves_made is a
\* subset of self.safes once the cell of the call is marked, and neither
\* make_safe_move nor make_random_move returns a probed cell.
C18_ProbedAreSafe ==
    /\ moves_made \subseteq safes
    /\ (ret.op \in {"make_safe_move", "make_random_move"} /\ ret.val # None)
         => ret.val \notin moves_made

\* After two calls, a query returned a cell.
C18_Witness ==
    /\ Cardinality(moves_made) >= 2
    /\ ret.op \in {"make_safe_move", "make_random_move"} /\ ret.val # None

\* C19 (Sentence.known_mines): known_mines() returns the whole cell set when
\* count equals the number of cells and is not 0, and the empty set
\* otherwise; the empty sentence with count 0 reports no mines; known_mines()
\* and known_safes() are never both non-empty.
C19_KnownMines ==
    pc = "mark" =>
        LET s == knowledge[idx]
        IN  /\ (Cardinality(s.cells) = s.count /\ s.count # 0)
                 => mine = s.cells
            /\ ~(Cardinality(s.cells) = s.count /\ s.count # 0)
                 => mine = {}
            /\ s = Sentence({}, 0) => mine = {}
            /\ ~(mine # {} /\ safe # {})

\* known_mines() returned a whole cell set of several cells.
C19_Witness ==
    /\ pc = "mark" /\ mines = {} /\ safes = {}
    /\ mine = knowledge[idx].cells
    /\ Cardinality(mine) >= 2

====
